---- MODULE Spec2Model ----
(***************************************************************************)
(* The authenticated-request pipeline of pokitdok-nodejs (src/index.js):   *)
(* PokitDok.prototype.apiRequest and the private refreshAccessToken.       *)
(*                                                                         *)
(* JavaScript is single-threaded: every action below is one whole event    *)
(* handler (a caller's apiRequest call, the completion callback of a       *)
(* resource call, the completion callback of a token call), run to its     *)
(* end or to the exception that aborts it.  An exception thrown inside a   *)
(* completion callback keeps the assignments made before it; whether the   *)
(* process then goes on (an uncaughtException handler) or stops is left    *)
(* open: stopping is the behaviour that stutters from there on.            *)
(*                                                                         *)
(* A request is identified by a number in Reqs; it stands for the pair     *)
(* (options, callback) the caller passed to apiRequest, and that same pair *)
(* is what travels through retryQueue.  Every caller passes a callback.    *)
(*                                                                         *)
(* Input domain of the transport: a call completes with (err) alone, or    *)
(* with a response whose body is JSON-object text, JSON-array text or      *)
(* text that is not JSON (already parsed by the transport where it can     *)
(* when options.json is set).  Text that starts with '{' is well-formed    *)
(* JSON, and the body of a 200 token response is {access_token: ...}.      *)
(***************************************************************************)
EXTENDS Integers, Sequences, FiniteSets, TLC

NReq == 2          \* number of caller-level requests
MaxRefresh == 2    \* cap on the number of token calls issued

Reqs == 1..NReq

\* options.json of each request: set by some wrappers, unset by others
OptionsJson == [r \in Reqs |-> r % 2 = 0]

(***************************************************************************)
(* JavaScript values                                                       *)
(***************************************************************************)
Null == [t |-> "null"]
Undefined == [t |-> "undefined"]
TransportErr == [t |-> "error"]      \* the err a failed transport call reports
Res(status, body) == [t |-> "res", statusCode |-> status, body |-> body]
Str(k) == [t |-> "str", v |-> k]      \* a string; k names what the text is
Obj(m) == [t |-> "obj", meta |-> m]   \* a parsed JSON object, with/without meta
Arr == [t |-> "arr"]                  \* a parsed JSON array
Tok(k) == [t |-> "tok", v |-> k]      \* the access_token of the k-th token call

\* body.indexOf('{') === 0
StartsWithBrace(b) == b.t = "str" /\ b.v \in {"objMeta", "objNoMeta"}

\* JSON.parse of a string: the value, or "throws"
JSONparse(b) ==
    IF b.t # "str" THEN [ok |-> FALSE, val |-> b]
    ELSE IF b.v = "objMeta" THEN [ok |-> TRUE, val |-> Obj(TRUE)]
    ELSE IF b.v = "objNoMeta" THEN [ok |-> TRUE, val |-> Obj(FALSE)]
    ELSE IF b.v = "jsonArray" THEN [ok |-> TRUE, val |-> Arr]
    ELSE [ok |-> FALSE, val |-> b]

\* line 121-124: the body as the rest of the handler sees it
ParsedBody(r, b) ==
    IF ~OptionsJson[r] /\ b.t = "str" /\ StartsWithBrace(b)
    THEN JSONparse(b).val ELSE b

\* !body.meta
NoMeta(b) == ~(b.t = "obj" /\ b.meta)

\* variant: every 400 counts, the meta test is missing
IsAuthFailureAny400(status, body) == status = 401 \/ status = 400

\* variant: only a 401 counts, the 400 branch is missing
IsAuthFailureOnly401(status, body) == status = 401

\* line 126: the test for an authentication failure
IsAuthFailure(status, body) == status = 401 \/ (status = 400 /\ NoMeta(body))

\* variant: the body is handed on as it is, JSON.parse of line 136 is missing
Data200NoParse(body) == body

\* line 134-139: the data handed to the callback on a 200
Data200(body) == IF JSONparse(body).ok THEN JSONparse(body).val ELSE body

\* 'Bearer ' + self.accessToken
Bearer(tok) == <<"Bearer", tok>>

\* bodies the transport can deliver for request r
RawBodies == {Str("objMeta"), Str("objNoMeta"), Str("jsonArray"), Str("text")}
DeliveredBodies(r) ==
    IF OptionsJson[r] THEN {Obj(TRUE), Obj(FALSE), Arr, Str("text")} ELSE RawBodies
Statuses == {200, 400, 401, 500}
TokenFailStatuses == {400, 401}
TokenFailBodies == {Str("objNoMeta"), Str("text")}

(***************************************************************************)
(* State                                                                   *)
(***************************************************************************)
VARIABLES
    accessToken,    \* context.accessToken
    refreshActive,  \* context.refreshActive
    retryQueue,     \* context.retryQueue: sequence of (options, callback) pairs
    pending,        \* resource calls handed to the transport, not yet completed
    tokenPending,   \* token calls handed to the transport, not yet completed
    sent,           \* per request: how often it was handed to the transport
    cbCount,        \* per request: how often its callback was invoked
    tokenIssued,    \* number of token calls issued so far
    dropped,        \* requests discarded from the queue by a failed refresh
    hist,           \* per request: the outcomes of its resource calls, in order
    tokenHist,      \* the outcomes of the token calls, in order
    ev              \* the event the last handler ran for, and what it did

vars == <<accessToken, refreshActive, retryQueue, pending, tokenPending,
          sent, cbCount, tokenIssued, dropped, hist, tokenHist, ev>>

Range(s) == {s[i] : i \in 1..Len(s)}
Count(s, x) == Cardinality({i \in 1..Len(s) : s[i] = x})

(***************************************************************************)
(* ev.kind is the event ("call", "resource", "token"), ev.req the request  *)
(* it belongs to (for a token event: the entry enqueued when the call was  *)
(* issued), ev.raw the body as delivered, ev.res the response as the       *)
(* handler leaves it (Undefined: none), ev.called the callbacks invoked,   *)
(* in order, ev.err and ev.data the arguments of the last one,             *)
(* ev.queueBefore the queue when the handler started, ev.replayed the      *)
(* apiRequest calls the handler made, ev.threw whether it ended by an      *)
(* exception.                                                              *)
(***************************************************************************)
Event(kind, r) ==
    [kind |-> kind, req |-> r, raw |-> Undefined, res |-> Undefined,
     called |-> <<>>, err |-> Undefined, data |-> Undefined,
     queueBefore |-> <<>>, replayed |-> <<>>, threw |-> FALSE]

\* the callback counters after the callbacks in called have run
Invoked(called) == [r \in Reqs |-> cbCount[r] + Count(called, r)]

\* function PokitDok(clientId, clientSecret, version)
Init ==
    /\ accessToken = Null
    /\ refreshActive = FALSE
    /\ retryQueue = <<>>
    /\ pending = {}
    /\ tokenPending = {}
    /\ sent = [r \in Reqs |-> 0]
    /\ cbCount = [r \in Reqs |-> 0]
    /\ tokenIssued = 0
    /\ dropped = {}
    /\ hist = [r \in Reqs |-> <<>>]
    /\ tokenHist = <<>>
    /\ ev = Event("init", 0)

(***************************************************************************)
(* apiRequest, lines 110-119: build the header from the current token and  *)
(* hand the request to the transport.  st carries the transport's pending  *)
(* set, the send counters and the log of apiRequest calls of this handler. *)
(***************************************************************************)
apiRequest(st, r, tok) ==
    [pending |-> st.pending \cup
                 {[req |-> r, auth |-> Bearer(tok), n |-> st.sent[r] + 1]},
     sent |-> [st.sent EXCEPT ![r] = @ + 1],
     log |-> Append(st.log, r)]

\* variant: a request dispatched while a refresh is active waits in the retry
\* queue instead of being sent
ApiRequestCallWaits(r) ==
    /\ sent[r] = 0
    /\ IF refreshActive
       THEN /\ retryQueue' = Append(retryQueue, r)
            /\ sent' = [sent EXCEPT ![r] = @ + 1]
            /\ UNCHANGED pending
       ELSE LET st == apiRequest([pending |-> pending, sent |-> sent,
                                  log |-> <<>>], r, accessToken)
            IN /\ pending' = st.pending
               /\ sent' = st.sent
               /\ UNCHANGED retryQueue
    /\ ev' = Event("call", r)
    /\ UNCHANGED <<accessToken, refreshActive, tokenPending,
                   cbCount, tokenIssued, dropped, hist, tokenHist>>

\* a caller dispatches a request it has not dispatched before
ApiRequestCall(r) ==
    /\ sent[r] = 0
    /\ LET st == apiRequest([pending |-> pending, sent |-> sent, log |-> <<>>],
                            r, accessToken)
       IN /\ pending' = st.pending
          /\ sent' = st.sent
    /\ ev' = Event("call", r)
    /\ UNCHANGED <<accessToken, refreshActive, retryQueue, tokenPending,
                   cbCount, tokenIssued, dropped, hist, tokenHist>>

(***************************************************************************)
(* refreshAccessToken, lines 13-31: enqueue, bail when a refresh is        *)
(* active, else raise the flag and issue the token call.  The completion   *)
(* closure keeps the callback of the request that got here: field cb.      *)
(* Field at is the position the triggering entry took in the queue.        *)
(***************************************************************************)
\* variant: the bail of lines 17-19 is missing
refreshAccessTokenNoBail(r) ==
    /\ retryQueue' = Append(retryQueue, r)
    /\ tokenIssued < MaxRefresh
    /\ refreshActive' = TRUE
    /\ tokenIssued' = tokenIssued + 1
    /\ tokenPending' = tokenPending \cup
           {[id |-> tokenIssued + 1, cb |-> r, at |-> Len(retryQueue) + 1]}

\* variant: the flag is not raised (line 21 is missing)
refreshAccessTokenNoFlag(r) ==
    /\ retryQueue' = Append(retryQueue, r)
    /\ IF refreshActive
       THEN UNCHANGED <<refreshActive, tokenPending, tokenIssued>>
       ELSE /\ tokenIssued < MaxRefresh
            /\ UNCHANGED refreshActive
            /\ tokenIssued' = tokenIssued + 1
            /\ tokenPending' = tokenPending \cup
                   {[id |-> tokenIssued + 1, cb |-> r, at |-> Len(retryQueue) + 1]}

\* variant: the entry is pushed after the bail, so a joining request is lost
refreshAccessTokenPushAfterBail(r) ==
    IF refreshActive
    THEN UNCHANGED <<retryQueue, refreshActive, tokenPending, tokenIssued>>
    ELSE /\ retryQueue' = Append(retryQueue, r)
         /\ tokenIssued < MaxRefresh
         /\ refreshActive' = TRUE
         /\ tokenIssued' = tokenIssued + 1
         /\ tokenPending' = tokenPending \cup
                {[id |-> tokenIssued + 1, cb |-> r, at |-> Len(retryQueue) + 1]}

refreshAccessToken(r) ==
    /\ retryQueue' = Append(retryQueue, r)
    /\ IF refreshActive
       THEN UNCHANGED <<refreshActive, tokenPending, tokenIssued>>
       ELSE /\ tokenIssued < MaxRefresh
            /\ refreshActive' = TRUE
            /\ tokenIssued' = tokenIssued + 1
            /\ tokenPending' = tokenPending \cup
                   {[id |-> tokenIssued + 1, cb |-> r, at |-> Len(retryQueue) + 1]}

(***************************************************************************)
(* The completion callback of a resource call, lines 119-141               *)
(***************************************************************************)
\* the transport completes with an error and no response: res is undefined,
\* so reading res.statusCode at line 126 throws and the handler ends there
ResourceError(p) ==
    /\ p \in pending
    /\ pending' = pending \ {p}
    /\ hist' = [hist EXCEPT ![p.req] = Append(@, "error")]
    /\ ev' = [Event("resource", p.req) EXCEPT !.threw = TRUE]
    /\ UNCHANGED <<accessToken, refreshActive, retryQueue, tokenPending,
                   sent, cbCount, tokenIssued, dropped, tokenHist>>

\* variant: a failure of a request that was sent with another token than the
\* session's current one is retried at once with the current token
ResourceAuthFailureRetryStale(p, status, b) ==
    /\ p \in pending
    /\ IsAuthFailure(status, ParsedBody(p.req, b))
    /\ IF ~refreshActive /\ p.auth # Bearer(accessToken)
       THEN LET st == apiRequest([pending |-> pending \ {p}, sent |-> sent,
                                  log |-> <<>>], p.req, accessToken)
            IN /\ pending' = st.pending
               /\ sent' = st.sent
               /\ UNCHANGED <<retryQueue, refreshActive, tokenPending,
                              tokenIssued>>
       ELSE /\ pending' = pending \ {p}
            /\ refreshAccessToken(p.req)
            /\ UNCHANGED sent
    /\ hist' = [hist EXCEPT ![p.req] = Append(@, "auth")]
    /\ ev' = [Event("resource", p.req) EXCEPT
                 !.raw = b,
                 !.res = Res(status, ParsedBody(p.req, b)),
                 !.queueBefore = retryQueue]
    /\ UNCHANGED <<accessToken, cbCount, dropped, tokenHist>>

\* variant: the return of line 127 is missing, the handler falls through to
\* line 130
ResourceAuthFailureFallThrough(p, status, b) ==
    /\ p \in pending
    /\ IsAuthFailure(status, ParsedBody(p.req, b))
    /\ pending' = pending \ {p}
    /\ refreshAccessToken(p.req)
    /\ hist' = [hist EXCEPT ![p.req] = Append(@, "auth")]
    /\ cbCount' = Invoked(<<p.req>>)
    /\ ev' = [Event("resource", p.req) EXCEPT
                 !.raw = b,
                 !.res = Res(status, ParsedBody(p.req, b)),
                 !.called = <<p.req>>,
                 !.err = ParsedBody(p.req, b),
                 !.data = Res(status, ParsedBody(p.req, b)),
                 !.queueBefore = retryQueue]
    /\ UNCHANGED <<accessToken, sent, dropped, tokenHist>>

\* line 126-128: 401, or 400 without meta
ResourceAuthFailure(p, status, b) ==
    /\ p \in pending
    /\ IsAuthFailure(status, ParsedBody(p.req, b))
    /\ pending' = pending \ {p}
    /\ refreshAccessToken(p.req)
    /\ hist' = [hist EXCEPT ![p.req] = Append(@, "auth")]
    /\ ev' = [Event("resource", p.req) EXCEPT
                 !.raw = b,
                 !.res = Res(status, ParsedBody(p.req, b)),
                 !.queueBefore = retryQueue]
    /\ UNCHANGED <<accessToken, sent, cbCount, dropped, tokenHist>>

\* line 130-132: any other status but 200
ResourceOtherStatus(p, status, b) ==
    /\ p \in pending
    /\ ~IsAuthFailure(status, ParsedBody(p.req, b))
    /\ status # 200
    /\ pending' = pending \ {p}
    /\ cbCount' = Invoked(<<p.req>>)
    /\ hist' = [hist EXCEPT ![p.req] = Append(@, "other")]
    /\ ev' = [Event("resource", p.req) EXCEPT
                 !.raw = b,
                 !.res = Res(status, ParsedBody(p.req, b)),
                 !.called = <<p.req>>,
                 !.err = ParsedBody(p.req, b),
                 !.data = Res(status, ParsedBody(p.req, b)),
                 !.queueBefore = retryQueue]
    /\ UNCHANGED <<accessToken, refreshActive, retryQueue, tokenPending,
                   sent, tokenIssued, dropped, tokenHist>>

\* line 133-140: a 200
ResourceOK(p, b) ==
    /\ p \in pending
    /\ ~IsAuthFailure(200, ParsedBody(p.req, b))
    /\ pending' = pending \ {p}
    /\ cbCount' = Invoked(<<p.req>>)
    /\ hist' = [hist EXCEPT ![p.req] = Append(@, "ok")]
    /\ ev' = [Event("resource", p.req) EXCEPT
                 !.raw = b,
                 !.res = Res(200, ParsedBody(p.req, b)),
                 !.called = <<p.req>>,
                 !.err = Null,
                 !.data = Data200(ParsedBody(p.req, b)),
                 !.queueBefore = retryQueue]
    /\ UNCHANGED <<accessToken, refreshActive, retryQueue, tokenPending,
                   sent, tokenIssued, dropped, tokenHist>>

(***************************************************************************)
(* The completion callback of a token call, lines 32-48                    *)
(***************************************************************************)
\* variant: the queue is drained from the front (shift instead of pop)
RECURSIVE ReplayQueueShift(_, _, _)
ReplayQueueShift(q, st, tok) ==
    IF Len(q) = 0 THEN st
    ELSE ReplayQueueShift(Tail(q), apiRequest(st, Head(q), tok), tok)

\* variant: one entry is replayed (if instead of while), the rest is discarded
ReplayQueueOnce(q, st, tok) ==
    IF Len(q) = 0 THEN st ELSE apiRequest(st, q[Len(q)], tok)

\* line 44-47: pop from the end and call apiRequest, until the queue is empty
RECURSIVE ReplayQueue(_, _, _)
ReplayQueue(q, st, tok) ==
    IF Len(q) = 0 THEN st
    ELSE ReplayQueue(SubSeq(q, 1, Len(q) - 1), apiRequest(st, q[Len(q)], tok), tok)

\* variant: res.statusCode is read before the flag is reset, so the throw
\* leaves the flag up
TokenErrorFlagKept(t) ==
    /\ t \in tokenPending
    /\ tokenPending' = tokenPending \ {t}
    /\ tokenHist' = Append(tokenHist, "error")
    /\ ev' = [Event("token", retryQueue[t.at]) EXCEPT
                 !.threw = TRUE,
                 !.queueBefore = retryQueue]
    /\ UNCHANGED <<accessToken, refreshActive, retryQueue, pending, sent,
                   cbCount, tokenIssued, dropped, hist>>

\* the transport completes with an error and no response: the flag is reset
\* at line 33, then reading res.statusCode at line 36 throws
TokenError(t) ==
    /\ t \in tokenPending
    /\ tokenPending' = tokenPending \ {t}
    /\ refreshActive' = FALSE
    /\ tokenHist' = Append(tokenHist, "error")
    /\ ev' = [Event("token", retryQueue[t.at]) EXCEPT
                 !.threw = TRUE,
                 !.queueBefore = retryQueue]
    /\ UNCHANGED <<accessToken, retryQueue, pending, sent, cbCount,
                   tokenIssued, dropped, hist>>

\* variant: the queue is not cleared (line 37 is missing)
TokenFailKeepQueue(t, status, b) ==
    /\ t \in tokenPending
    /\ status # 200
    /\ tokenPending' = tokenPending \ {t}
    /\ refreshActive' = FALSE
    /\ UNCHANGED retryQueue
    /\ cbCount' = Invoked(<<t.cb>>)
    /\ dropped' = dropped \cup (Range(retryQueue) \ {t.cb})
    /\ tokenHist' = Append(tokenHist, "fail")
    /\ ev' = [Event("token", retryQueue[t.at]) EXCEPT
                 !.raw = b,
                 !.res = Res(status, b),
                 !.called = <<t.cb>>,
                 !.err = b,
                 !.data = Res(status, b),
                 !.queueBefore = retryQueue]
    /\ UNCHANGED <<accessToken, pending, sent, tokenIssued, hist>>

\* variant: every queued caller is failed, not only the triggering one
TokenFailAll(t, status, b) ==
    /\ t \in tokenPending
    /\ status # 200
    /\ tokenPending' = tokenPending \ {t}
    /\ refreshActive' = FALSE
    /\ retryQueue' = <<>>
    /\ cbCount' = Invoked(retryQueue)
    /\ dropped' = dropped \cup (Range(retryQueue) \ {t.cb})
    /\ tokenHist' = Append(tokenHist, "fail")
    /\ ev' = [Event("token", retryQueue[t.at]) EXCEPT
                 !.raw = b,
                 !.res = Res(status, b),
                 !.called = retryQueue,
                 !.err = b,
                 !.data = Res(status, b),
                 !.queueBefore = retryQueue]
    /\ UNCHANGED <<accessToken, pending, sent, tokenIssued, hist>>

\* variant: the token is read from the body before the status is tested
\* (lines 41-42 above line 36): an error body has no access_token
TokenFailSetsToken(t, status, b) ==
    /\ t \in tokenPending
    /\ status # 200
    /\ tokenPending' = tokenPending \ {t}
    /\ refreshActive' = FALSE
    /\ accessToken' = Undefined
    /\ retryQueue' = <<>>
    /\ cbCount' = Invoked(<<t.cb>>)
    /\ dropped' = dropped \cup (Range(retryQueue) \ {t.cb})
    /\ tokenHist' = Append(tokenHist, "fail")
    /\ ev' = [Event("token", retryQueue[t.at]) EXCEPT
                 !.raw = b,
                 !.res = Res(status, b),
                 !.called = <<t.cb>>,
                 !.err = b,
                 !.data = Res(status, b),
                 !.queueBefore = retryQueue]
    /\ UNCHANGED <<pending, sent, tokenIssued, hist>>

\* line 36-39: anything but a 200: clear the queue, call the closure's callback
TokenFail(t, status, b) ==
    /\ t \in tokenPending
    /\ status # 200
    /\ tokenPending' = tokenPending \ {t}
    /\ refreshActive' = FALSE
    /\ retryQueue' = <<>>
    /\ cbCount' = Invoked(<<t.cb>>)
    /\ dropped' = dropped \cup (Range(retryQueue) \ {t.cb})
    /\ tokenHist' = Append(tokenHist, "fail")
    /\ ev' = [Event("token", retryQueue[t.at]) EXCEPT
                 !.raw = b,
                 !.res = Res(status, b),
                 !.called = <<t.cb>>,
                 !.err = b,
                 !.data = Res(status, b),
                 !.queueBefore = retryQueue]
    /\ UNCHANGED <<accessToken, pending, sent, tokenIssued, hist>>

\* variant: the queue is replayed before the new token is stored (lines
\* 41-42 below the loop), so the replays carry the old token
TokenOKReplayFirst(t) ==
    /\ t \in tokenPending
    /\ tokenPending' = tokenPending \ {t}
    /\ refreshActive' = FALSE
    /\ accessToken' = Tok(t.id)
    /\ LET st == ReplayQueue(retryQueue,
                             [pending |-> pending, sent |-> sent, log |-> <<>>],
                             accessToken)
       IN /\ pending' = st.pending
          /\ sent' = st.sent
          /\ ev' = [Event("token", retryQueue[t.at]) EXCEPT
                       !.raw = Tok(t.id),
                       !.res = Res(200, Tok(t.id)),
                       !.queueBefore = retryQueue,
                       !.replayed = st.log]
    /\ retryQueue' = <<>>
    /\ tokenHist' = Append(tokenHist, "ok")
    /\ UNCHANGED <<cbCount, tokenIssued, dropped, hist>>

\* line 40-47: a 200; the k-th token call yields the token Tok(k)
TokenOK(t) ==
    /\ t \in tokenPending
    /\ tokenPending' = tokenPending \ {t}
    /\ refreshActive' = FALSE
    /\ accessToken' = Tok(t.id)
    /\ LET st == ReplayQueue(retryQueue,
                             [pending |-> pending, sent |-> sent, log |-> <<>>],
                             Tok(t.id))
       IN /\ pending' = st.pending
          /\ sent' = st.sent
          /\ ev' = [Event("token", retryQueue[t.at]) EXCEPT
                       !.raw = Tok(t.id),
                       !.res = Res(200, Tok(t.id)),
                       !.queueBefore = retryQueue,
                       !.replayed = st.log]
    /\ retryQueue' = <<>>
    /\ tokenHist' = Append(tokenHist, "ok")
    /\ UNCHANGED <<cbCount, tokenIssued, dropped, hist>>

Next ==
    \/ \E r \in Reqs : ApiRequestCall(r)
    \/ \E p \in pending : ResourceError(p)
    \/ \E p \in pending : \E s \in Statuses, b \in DeliveredBodies(p.req) :
          ResourceAuthFailure(p, s, b)
    \/ \E p \in pending : \E s \in Statuses, b \in DeliveredBodies(p.req) :
          ResourceOtherStatus(p, s, b)
    \/ \E p \in pending : \E b \in DeliveredBodies(p.req) : ResourceOK(p, b)
    \/ \E t \in tokenPending : TokenError(t)
    \/ \E t \in tokenPending : \E s \in TokenFailStatuses, b \in TokenFailBodies :
          TokenFail(t, s, b)
    \/ \E t \in tokenPending : TokenOK(t)

Spec == Init /\ [][Next]_vars

(***************************************************************************)
(* The environment of the liveness claims: every transport call gets a     *)
(* response, every token call returns 200, and only the first send of a    *)
(* request is answered by an authentication failure.  The transport        *)
(* completes every call it was handed, hence the weak fairness.            *)
(***************************************************************************)
FirstSendAuthFailure ==
    \E p \in pending : \E s \in Statuses, b \in DeliveredBodies(p.req) :
        p.n = 1 /\ ResourceAuthFailure(p, s, b)

Answered(r) ==
    \E p \in pending : \E s \in Statuses, b \in DeliveredBodies(p.req) :
        /\ p.req = r
        /\ \/ ResourceOtherStatus(p, s, b)
           \/ ResourceOK(p, b)

TokenAnswered == \E t \in tokenPending : TokenOK(t)

LiveNext ==
    \/ \E r \in Reqs : ApiRequestCall(r)
    \/ FirstSendAuthFailure
    \/ \E r \in Reqs : Answered(r)
    \/ TokenAnswered

LiveSpec ==
    /\ Init
    /\ [][LiveNext]_vars
    /\ WF_vars(TokenAnswered)
    /\ \A r \in Reqs : WF_vars(Answered(r))

(***************************************************************************)
(* The environment of the retry loop: every resource call is answered by a *)
(* 401 and every token call by a 200.                                      *)
(***************************************************************************)
Always401 ==
    \E p \in pending : \E b \in DeliveredBodies(p.req) :
        ResourceAuthFailure(p, 401, b)

LoopNext ==
    \/ \E r \in Reqs : ApiRequestCall(r)
    \/ Always401
    \/ TokenAnswered

LoopSpec ==
    /\ Init
    /\ [][LoopNext]_vars
    /\ WF_vars(Always401)
    /\ WF_vars(TokenAnswered)

(***************************************************************************)
(* The environment in which every token call ends with an HTTP response,   *)
(* a 200 or another status: the handlers of Next but the one of a token    *)
(* call that ends without a response.                                      *)
(***************************************************************************)
RespondedNext ==
    \/ \E r \in Reqs : ApiRequestCall(r)
    \/ \E p \in pending : ResourceError(p)
    \/ \E p \in pending : \E s \in Statuses, b \in DeliveredBodies(p.req) :
          ResourceAuthFailure(p, s, b)
    \/ \E p \in pending : \E s \in Statuses, b \in DeliveredBodies(p.req) :
          ResourceOtherStatus(p, s, b)
    \/ \E p \in pending : \E b \in DeliveredBodies(p.req) : ResourceOK(p, b)
    \/ \E t \in tokenPending : \E s \in TokenFailStatuses, b \in TokenFailBodies :
          TokenFail(t, s, b)
    \/ \E t \in tokenPending : TokenOK(t)

RespondedSpec == Init /\ [][RespondedNext]_vars

(***************************************************************************)
(* Claims                                                                  *)
(***************************************************************************)
Reverse(s) == [i \in 1..Len(s) |-> s[Len(s) + 1 - i]]

\* the requests whose only response so far is an authentication failure
FailedOnce == {r \in Reqs : hist[r] = <<"auth">>}

\* the response of the last event is an authentication failure (401, or 400
\* whose body has no meta)
EvIsAuthFailure ==
    /\ ev.res.t = "res"
    /\ \/ ev.res.statusCode = 401
       \/ ev.res.statusCode = 400 /\ ev.res.body \notin {Obj(TRUE)}

\* C1: in every reachable state at most one token-endpoint call is
\* outstanding.
SingleFlight == Cardinality(tokenPending) <= 1

\* a token call is outstanding and a second authentication failure joined it
SingleFlightWitness ==
    Cardinality(tokenPending) = 1 /\ Len(retryQueue) >= 2 /\ refreshActive

\* C2: when N >= 1 requests have all received an authentication failure and
\* no token call has been answered yet, exactly one token call was issued.
OneCallForConcurrentFailures ==
    (Cardinality(FailedOnce) >= 1 /\ tokenHist = <<>>) => tokenIssued = 1

\* every request has failed, no token response yet, one token call
OneCallForConcurrentFailuresWitness ==
    FailedOnce = Reqs /\ tokenHist = <<>> /\ tokenIssued = 1

\* C3: every request that got its authentication failure before any refresh
\* completed is eventually replayed, and its callback is eventually invoked
\* (once), given that token calls return 200 and replays are answered by a
\* response that is no authentication failure.
AllReplayedAndCompleted ==
    \A r \in Reqs :
        (hist[r] = <<"auth">> /\ tokenHist = <<>>)
            ~> (sent[r] = 2 /\ cbCount[r] = 1 /\ Len(hist[r]) = 2)

\* all requests failed together, one refresh, all replayed and completed
AllReplayedAndCompletedWitness ==
    /\ tokenHist = <<"ok">>
    /\ \A r \in Reqs : Len(hist[r]) = 2 /\ hist[r][1] = "auth" /\ cbCount[r] = 1

\* C4: a single request on an idle session whose responses are 401, then
\* (token call) 200, then 200: one token call, two sends, one callback
\* invocation, with a null error and the response data.
SingleRequestRecovery ==
    \A r \in Reqs :
        (/\ \A q \in Reqs \ {r} : sent[q] = 0
         /\ hist[r] = <<"auth", "ok">>
         /\ tokenHist = <<"ok">>)
        => /\ tokenIssued = 1
           /\ sent[r] = 2
           /\ cbCount[r] = 1
           /\ ev.kind = "resource" /\ ev.req = r
           /\ ev.called = <<r>>
           /\ ev.err = Null
           /\ ev.data = (IF ev.raw = Str("objMeta") THEN Obj(TRUE)
                         ELSE IF ev.raw = Str("objNoMeta") THEN Obj(FALSE)
                         ELSE IF ev.raw = Str("jsonArray") THEN Arr
                         ELSE ev.raw)

SingleRequestRecoveryWitness ==
    \E r \in Reqs :
        /\ \A q \in Reqs \ {r} : sent[q] = 0
        /\ hist[r] = <<"auth", "ok">>
        /\ tokenHist = <<"ok">>
        /\ ev.data = Obj(TRUE)

\* C5: a token call that returns 200 replays the queued entries in reverse
\* order of enqueueing.
ReplayInReverseOrder ==
    (ev.kind = "token" /\ ev.res.t = "res" /\ ev.res.statusCode = 200)
        => ev.replayed = Reverse(ev.queueBefore)

\* every request was queued, the last enqueued was replayed first
ReplayInReverseOrderWitness ==
    /\ ev.kind = "token" /\ ev.res.t = "res" /\ ev.res.statusCode = 200
    /\ Len(ev.queueBefore) = NReq
    /\ ev.replayed[1] = ev.queueBefore[NReq]
    /\ ev.replayed[NReq] = ev.queueBefore[1]
    /\ ev.replayed # ev.queueBefore

\* C6: the callback of a request is invoked at most once, replays included.
CallbackAtMostOnce == \A r \in Reqs : cbCount[r] <= 1

\* a request that went through the queue and a replay got its one callback
CallbackAtMostOnceWitness ==
    \E r \in Reqs : cbCount[r] = 1 /\ sent[r] >= 2 /\ tokenIssued = MaxRefresh

\* C7: when a token call returns a non-200 status, its handler leaves
\* refreshActive false and the queue empty, and invokes exactly one callback:
\* that of the request whose failure started the refresh, with the response
\* body as error and the response as second argument.
FailedRefreshFailsTrigger ==
    (ev.kind = "token" /\ ev.res.t = "res" /\ ev.res.statusCode # 200)
        => /\ ~refreshActive
           /\ retryQueue = <<>>
           /\ ev.called = <<ev.req>>
           /\ ev.err = ev.raw
           /\ ev.data = Res(ev.res.statusCode, ev.raw)

\* a failed refresh with a second entry in the queue
FailedRefreshFailsTriggerWitness ==
    /\ ev.kind = "token" /\ ev.res.t = "res" /\ ev.res.statusCode # 200
    /\ Len(ev.queueBefore) >= 2
    /\ cbCount[ev.req] = 1

TransportErrorSurfaced ==
    (ev.kind = "resource" /\ ev.res.t = "undefined")
        => /\ ev.called = <<ev.req>>
           /\ ev.err = TransportErr
           /\ ev.data = Undefined
           /\ cbCount[ev.req] = 1

\* C10: a resource response that is neither a 200 nor an authentication
\* failure invokes the request's callback once with (body, response), and
\* leaves refreshActive, retryQueue and accessToken unchanged, with no token
\* call issued.
OtherStatusSurfaced ==
    [][(/\ ev'.kind = "resource"
        /\ ev'.res.t = "res"
        /\ ev'.res.statusCode # 200
        /\ ev'.res.statusCode # 401
        /\ ~(ev'.res.statusCode = 400 /\ ev'.res.body \notin {Obj(TRUE)}))
       => /\ ev'.called = <<ev'.req>>
          /\ cbCount' = [cbCount EXCEPT ![ev'.req] = @ + 1]
          /\ ev'.err = ev'.res.body
          /\ ev'.data = ev'.res
          /\ UNCHANGED <<refreshActive, retryQueue, accessToken,
                         tokenPending, tokenIssued>>]_vars

\* a 500 arrived and was surfaced while a refresh was outstanding
OtherStatusSurfacedWitness ==
    /\ ev.kind = "resource"
    /\ ev.res.t = "res"
    /\ ev.res.statusCode = 500
    /\ ev.called = <<ev.req>>
    /\ refreshActive
    /\ retryQueue # <<>>

\* C11: a resource response is an authentication failure exactly when its
\* status is 401, or 400 with a parsed body that has no meta; then the
\* request is handed to refreshAccessToken (it is appended to the queue) and
\* its callback is not invoked by this handler; for every other response the
\* refresh path is not entered (the queue is left as it was).
AuthFailureClassification ==
    (ev.kind = "resource" /\ ev.res.t = "res")
        => IF \/ ev.res.statusCode = 401
              \/ /\ ev.res.statusCode = 400
                 /\ ev.raw \notin {Str("objMeta"), Obj(TRUE)}
           THEN /\ retryQueue = Append(ev.queueBefore, ev.req)
                /\ ev.called = <<>>
                /\ refreshActive
           ELSE /\ retryQueue = ev.queueBefore
                /\ ev.called = <<ev.req>>

\* a 400 whose JSON body has no meta was taken as an authentication failure
AuthFailureClassificationWitness ==
    /\ ev.kind = "resource" /\ ev.res.t = "res"
    /\ ev.res.statusCode = 400
    /\ ev.raw = Str("objNoMeta")
    /\ retryQueue = Append(ev.queueBefore, ev.req)

\* the request's last response was an authentication failure and it has not
\* been sent again, called back or discarded since
AwaitingReplay(r) ==
    /\ hist[r] # <<>>
    /\ hist[r][Len(hist[r])] = "auth"
    /\ sent[r] = Len(hist[r])
    /\ cbCount[r] = 0
    /\ r \notin dropped

\* C12: every request that received an authentication failure and awaits its
\* replay is in retryQueue exactly once, and no other request is in it.
QueuedExactlyOnce ==
    \A r \in Reqs : Count(retryQueue, r) = IF AwaitingReplay(r) THEN 1 ELSE 0

\* two requests await their replay, one of them after an earlier replay
QueuedExactlyOnceWitness ==
    /\ Len(retryQueue) = 2
    /\ \E r \in Reqs : AwaitingReplay(r) /\ sent[r] = 2

\* C13: refreshActive is true exactly in the states where a token call was
\* issued and its response has not been handled yet.
FlagMeansOutstandingCall == refreshActive <=> (tokenPending # {})

\* the flag is up for the second token call, after it fell for the first
FlagMeansOutstandingCallWitness ==
    refreshActive /\ tokenIssued = 2 /\ Len(tokenHist) = 1

\* C14: a new session has accessToken = null, it stays null until the first
\* token call that returns 200, and every request handed to the transport
\* until then carries the header built from the null token ('Bearer null').
NullTokenBeforeFirstRefresh ==
    (\A i \in 1..Len(tokenHist) : tokenHist[i] # "ok")
        => /\ accessToken = Null
           /\ \A p \in pending : p.auth = <<"Bearer", Null>>

\* a refresh failed, no refresh succeeded yet, and a request is in flight
NullTokenBeforeFirstRefreshWitness ==
    /\ tokenHist = <<"fail">>
    /\ accessToken = Null
    /\ \E p \in pending : p.auth = <<"Bearer", Null>>

JoinsOutstandingRefresh ==
    [][/\ (/\ refreshActive
           /\ ev'.kind = "resource" /\ ev'.res.t = "res"
           /\ \/ ev'.res.statusCode = 401
              \/ /\ ev'.res.statusCode = 400
                 /\ ev'.raw \notin {Str("objMeta"), Obj(TRUE)})
          => /\ retryQueue' = Append(retryQueue, ev'.req)
             /\ UNCHANGED <<tokenIssued, tokenPending, sent, refreshActive>>
       /\ \A r \in Range(retryQueue) :
             sent'[r] # sent[r]
                 => /\ ev'.kind = "token"
                    /\ ev'.res.t = "res" /\ ev'.res.statusCode = 200
       /\ (ev'.kind = "token" /\ ev'.res.t = "res" /\ ev'.res.statusCode = 200)
          => /\ retryQueue' = <<>>
             /\ \A r \in Range(retryQueue) :
                   /\ sent'[r] = sent[r] + 1
                   /\ \E p \in pending' : p.req = r /\ p.n = sent'[r]]_vars

\* a refresh that a second request joined returned 200: both are in flight
\* again and the queue is empty
JoinsOutstandingRefreshWitness ==
    /\ ev.kind = "token" /\ ev.res.t = "res" /\ ev.res.statusCode = 200
    /\ Len(ev.queueBefore) = 2
    /\ retryQueue = <<>>
    /\ \A r \in Range(ev.queueBefore) : \E p \in pending : p.req = r /\ p.n = 2

\* C17: with every resource response a 401 and every token call a 200, a
\* request is enqueued, refreshed and replayed again and again and its
\* callback is never invoked: no callback ever runs, and the cycles go on up
\* to the cap on token calls, whatever the cap.
RetriesWithoutBound ==
    /\ [](\A r \in Reqs : cbCount[r] = 0)
    /\ (\E r \in Reqs : sent[r] > 0) ~> (tokenIssued = MaxRefresh)

\* a request was replayed by every token call the cap allows, without callback
RetriesWithoutBoundWitness ==
    \E r \in Reqs :
        /\ sent[r] = MaxRefresh + 1
        /\ cbCount[r] = 0
        /\ \A i \in 1..Len(hist[r]) : hist[r][i] = "auth"

\* C18: as long as an outstanding token call has no response, refreshActive
\* stays true, no further token call is issued, no queued request is sent
\* again or called back, and the queue only grows by appending.
StalledWhileUnanswered ==
    [][(\E t \in tokenPending : t \in tokenPending')
       => /\ refreshActive /\ refreshActive'
          /\ tokenIssued' = tokenIssued
          /\ tokenPending' = tokenPending
          /\ Len(retryQueue') >= Len(retryQueue)
          /\ SubSeq(retryQueue', 1, Len(retryQueue)) = retryQueue
          /\ \A r \in Range(retryQueue) :
                sent'[r] = sent[r] /\ cbCount'[r] = cbCount[r]
          /\ (ev'.kind = "resource" /\ retryQueue' # retryQueue)
                => retryQueue' = Append(retryQueue, ev'.req)]_vars

\* a later authentication failure was appended behind the unanswered call
StalledWhileUnansweredWitness ==
    /\ refreshActive
    /\ tokenPending # {}
    /\ Len(retryQueue) = 2
    /\ ev.kind = "resource"
    /\ \A r \in Range(retryQueue) : cbCount[r] = 0

\* C19: accessToken is changed only by the completion handler of a token call
\* that returned 200, which sets it to the token of that response; every
\* other handler leaves it as it is.
TokenChangedOnlyByRefresh ==
    [][accessToken' # accessToken
       => /\ ev'.kind = "token"
          /\ ev'.res.t = "res"
          /\ ev'.res.statusCode = 200
          /\ accessToken' = ev'.raw]_vars

\* after a refresh that succeeded and one that failed the session still has
\* the token of the first
TokenChangedOnlyByRefreshWitness ==
    tokenHist = <<"ok", "fail">> /\ accessToken = Tok(1)

\* C20: every request replayed by a successful refresh is handed to the
\* transport with the header of the token that refresh obtained, which is
\* the session's accessToken from then on.
ReplayCarriesNewToken ==
    (ev.kind = "token" /\ ev.res.t = "res" /\ ev.res.statusCode = 200)
        => /\ accessToken = ev.raw
           /\ \A r \in Range(ev.queueBefore) :
                 \E p \in pending :
                     /\ p.req = r
                     /\ p.n = sent[r]
                     /\ p.auth = <<"Bearer", ev.raw>>

\* the second refresh replayed a request that had failed with the first token
ReplayCarriesNewTokenWitness ==
    /\ ev.kind = "token" /\ ev.res.t = "res" /\ ev.res.statusCode = 200
    /\ ev.raw = Tok(2)
    /\ \E p \in pending : p.n = 3 /\ p.auth = <<"Bearer", Tok(2)>>

\* C21: when every token call ends with an HTTP response, in every state
\* between two handlers a lowered refreshActive means an empty retryQueue: a
\* queue that holds entries has a token call outstanding.
QueueEmptyWhenIdle ==
    /\ ~refreshActive => retryQueue = <<>>
    /\ retryQueue # <<>> => tokenPending # {}

\* a token call that two requests were queued behind was answered by another
\* status than 200, and the session is idle again with an empty queue
QueueEmptyWhenIdleWitness ==
    /\ ev.kind = "token"
    /\ ev.res.t = "res"
    /\ ev.res.statusCode # 200
    /\ Len(ev.queueBefore) = 2
    /\ ~refreshActive
    /\ retryQueue = <<>>

\* the resource calls whose authentication failure the step delivers
FailureDelivered(p) ==
    /\ p \in pending
    /\ p \notin pending'
    /\ ev'.kind = "resource"
    /\ ev'.req = p.req
    /\ ev'.res.t = "res"
    /\ \/ ev'.res.statusCode = 401
       \/ ev'.res.statusCode = 400 /\ ev'.res.body \notin {Obj(TRUE)}

\* C22: an authentication failure of a request that was sent with an older
\* token than the one a completed refresh has stored, arriving while no
\* refresh is active, is enqueued and starts a further token call; the
\* request is not sent again with the stored token by that handler.
LateFailureRefreshesAgain ==
    [][\A p \in pending :
          (/\ FailureDelivered(p)
           /\ ~refreshActive
           /\ accessToken # Null
           /\ p.auth # <<"Bearer", accessToken>>)
          => /\ retryQueue' = Append(retryQueue, p.req)
             /\ refreshActive'
             /\ tokenIssued' = tokenIssued + 1
             /\ \E t \in tokenPending' \ tokenPending : t.cb = p.req
             /\ sent' = sent
             /\ accessToken' = accessToken]_vars

\* two requests were sent with the null token; the first refresh succeeded,
\* and the failure of the other request, arriving after it, started the
\* second token call
LateFailureRefreshesAgainWitness ==
    /\ tokenHist = <<"ok">>
    /\ accessToken = Tok(1)
    /\ tokenIssued = 2
    /\ refreshActive
    /\ ev.kind = "resource"
    /\ EvIsAuthFailure
    /\ ev.queueBefore = <<>>
    /\ retryQueue = <<ev.req>>
    /\ sent[ev.req] = 1
    /\ \E r \in Reqs \ {ev.req} : sent[r] = 2

DispatchNeverWaits ==
    [][/\ (ev'.kind = "call" /\ refreshActive)
          => /\ pending' = pending \cup
                    {[req |-> ev'.req, auth |-> <<"Bearer", accessToken>>,
                      n |-> sent[ev'.req] + 1]}
             /\ pending' # pending
             /\ sent'[ev'.req] = sent[ev'.req] + 1
             /\ UNCHANGED <<retryQueue, refreshActive, tokenPending,
                            tokenIssued, accessToken>>
       /\ \A r \in Reqs :
             Count(retryQueue', r) > Count(retryQueue, r)
                => \E p \in pending : p.req = r /\ FailureDelivered(p)]_vars

\* while the second token call is outstanding a request was dispatched and
\* is in flight with the stale token of the first refresh
DispatchNeverWaitsWitness ==
    /\ ev.kind = "call"
    /\ refreshActive
    /\ tokenPending # {}
    /\ accessToken = Tok(1)
    /\ ev.req \notin Range(retryQueue)
    /\ \E p \in pending :
          p.req = ev.req /\ p.n = 1 /\ p.auth = <<"Bearer", Tok(1)>>

====
